---- MODULE Spec2Model ----
(***************************************************************************)
(* Model of parallel_mlps: build_model_ids, the ParallelMLPs engine        *)
(* (construction, reset_parameters, forward, extract_mlp) and the          *)
(* MultiConfusionMatrix accumulator.                                       *)
(*                                                                         *)
(* Tensors are functions over 0-based index ranges, Python lists are       *)
(* sequences.  Real-valued parameters are small integers; activation       *)
(* outputs are fixed-point numbers with scale 100.                         *)
(***************************************************************************)
EXTENDS Integers, Sequences, FiniteSets, TLC

VARIABLES args, ids, eng, call, fwd, ext, cm, seen, loc

vars == <<args, ids, eng, call, fwd, ext, cm, seen, loc>>

None == [none |-> TRUE]

(* ---------------------------- bounds ----------------------------------- *)
MaxReps == 2
MaxActs == 2
MaxNeurons == 2
MaxStep == 2
MaxSeed == 1
MaxResets == 1
MaxResetIds == 1
MaxMlpSteps == 1
MaxModels == 3
InFeatures == 2
OutFeatures == 2
NModels == 2
NClasses == 2
MaxSamples == 3

(* --------------------------- activations ------------------------------- *)
\* an activation instance: its class name and (LeakyReLU) negative slope in percent
Act(cls, slope) == [cls |-> cls, negative_slope |-> slope]

ActivationPool ==
    {Act("Sigmoid", 0), Act("LeakyReLU", 1), Act("LeakyReLU", 20)}

RECURSIVE SeqsUpTo(_, _)
SeqsUpTo(S, n) ==
    IF n = 0 THEN {<<>>}
    ELSE LET shorter == SeqsUpTo(S, n - 1)
         IN  shorter \cup {Append(s, x) : s \in {t \in shorter : Len(t) = n - 1}, x \in S}

(* --------------------------- list helpers ------------------------------ *)
\* [v] * n : Python list repetition (n <= 0 gives the empty list)
Repeat(v, n) == [k \in 1..(IF n > 0 THEN n ELSE 0) |-> v]

RECURSIVE Tile(_, _)
\* lst * n
Tile(lst, n) == IF n <= 0 THEN <<>> ELSE lst \o Tile(lst, n - 1)

\* lst[:n]
Take(lst, n) == SubSeq(lst, 1, IF n < Len(lst) THEN n ELSE Len(lst))

RECURSIVE arange(_, _, _)
\* torch.arange(lo, hi, step).tolist()
arange(lo, hi, step) ==
    IF lo >= hi THEN <<>> ELSE <<lo>> \o arange(lo + step, hi, step)

RECURSIVE groupby_keys(_)
\* [i[0] for i in groupby(lst)] : one key per run of equal consecutive values
groupby_keys(lst) ==
    IF Len(lst) = 0 THEN <<>>
    ELSE LET rest == groupby_keys(Tail(lst))
         IN  IF Len(lst) > 1 /\ lst[2] = lst[1] THEN rest ELSE <<lst[1]>> \o rest

SeqSum(s) ==
    LET RECURSIVE f(_)
        f(k) == IF k = 0 THEN 0 ELSE s[k] + f(k - 1)
    IN  f(Len(s))

(* -------------------------- build_model_ids ---------------------------- *)
activation_names(activation_functions) ==
    [k \in 1..Len(activation_functions) |-> activation_functions[k].cls]

\* bug: the instances are compared, not their class names
HasDuplicateInstances(activation_functions) ==
    Cardinality({activation_functions[k] : k \in 1..Len(activation_functions)})
        # Len(activation_functions)

HasDuplicateNames(activation_functions) ==
    LET names == activation_names(activation_functions)
    IN  Cardinality({names[k] : k \in 1..Len(names)}) # Len(names)

neurons_structure(min_neurons, max_neurons, step) ==
    arange(min_neurons, max_neurons + 1, step)

\* bug: one model too many
num_parallel_mlps_off(S, K, R) == S * K * R + 1

num_parallel_mlps(S, K, R) == S * K * R

RECURSIVE ForStructures(_, _, _, _)
\* for structure in neurons_structure: hidden += [i] * structure; i += 1
\* state is <<i, hidden>>
ForStructures(structures, k, i, hidden) ==
    IF k > Len(structures) THEN <<i, hidden>>
    ELSE ForStructures(structures, k + 1, i + 1, hidden \o Repeat(i, structures[k]))

RECURSIVE WhileModels(_, _, _, _)
\* while i < num_parallel_mlps: <for loop>
WhileModels(structures, M, i, hidden) ==
    IF i < M
    THEN LET r == ForStructures(structures, 1, i, hidden)
         IN  WhileModels(structures, M, r[1], r[2])
    ELSE hidden

build_model_ids(a) ==
    IF Len(a.activation_functions) = 0
    THEN [status |-> "ValueError", msg |-> "At least one activation function must be passed"]
    ELSE IF HasDuplicateNames(a.activation_functions)
    THEN [status |-> "ValueError", msg |-> "activation_functions must have only unique values"]
    ELSE LET num_activations == Len(a.activation_functions)
             structures == neurons_structure(a.min_neurons, a.max_neurons, a.step)
             S == Len(structures)
             M == num_parallel_mlps(S, num_activations, a.repetitions)
             hidden == WhileModels(structures, M, 0, <<>>)
             out_model == groupby_keys(hidden)
             out_arch == Tile(Take(out_model, num_activations * S), a.repetitions)
         IN  [status |-> "ok", msg |-> "",
              hidden_neuron__model_id |-> hidden, output__model_id |-> out_model,
              output__architecture_id |-> out_arch]

(* ------------------------ ParallelMLPs.__init__ ------------------------ *)
\* torch.Tensor(lst): 0-based tensor of a Python list
Tensor(lst) == [i \in 0..(Len(lst) - 1) |-> lst[i + 1]]

Range(f) == {f[i] : i \in DOMAIN f}

SetMax(S) == CHOOSE x \in S : \A y \in S : y <= x

RECURSIVE SortedSeq(_)
\* sorted(list(S))
SortedSeq(S) ==
    IF S = {} THEN <<>>
    ELSE LET lo == CHOOSE x \in S : \A y \in S : x <= y
         IN  <<lo>> \o SortedSeq(S \ {lo})

\* np.bincount(t): occurrences of every value 0..max(t)
bincount(t) ==
    IF DOMAIN t = {} THEN [m \in {} |-> 0]
    ELSE [m \in 0..SetMax(Range(t)) |-> Cardinality({i \in DOMAIN t : t[i] = m})]

RECURSIVE PrefixSum(_, _)
\* sum of counts[0..m-1]
PrefixSum(counts, m) == IF m = 0 THEN 0 ELSE counts[m - 1] + PrefixSum(counts, m - 1)

\* torch.cat([tensor([0]), counts.cumsum(0)[:-1]])
model_id__start_idx(counts) ==
    IF DOMAIN counts = {} THEN [m \in {0} |-> 0]
    ELSE [m \in DOMAIN counts |-> PrefixSum(counts, m)]

\* start_idx + num_hidden_neurons (broadcast of a one-element start over no counts is empty)
model_id__end_idx(start, counts) == [m \in DOMAIN counts |-> start[m] + counts[m]]

\* bug: one neuron too many per activation segment
activations_split_up(total_hidden_neurons, num_activations) ==
    (total_hidden_neurons \div num_activations) + 1

\* self.activations_split = self.total_hidden_neurons // self.num_activations
activations_split(total_hidden_neurons, num_activations) ==
    total_hidden_neurons \div num_activations

\* the engine before self.reset_parameters(); the parameter cells are allocated
\* (torch.Tensor(...)) and every one of them is overwritten by the reset of
\* the model that owns it before it can be read
Allocate(in_features, out_features, hidden, out_model, out_arch, activations, bias) ==
    LET h == Tensor(hidden)
        T == Len(hidden)
        unique == SortedSeq(Range(h))
        counts == bincount(h)
        start == model_id__start_idx(counts)
    IN  [status |-> "ok",
         in_features |-> in_features,
         out_features |-> out_features,
         activations |-> activations,
         hidden_neuron__model_id |-> h,
         output__model_id |-> Tensor(out_model),
         output__architecture_id |-> Tensor(out_arch),
         total_hidden_neurons |-> T,
         unique_model_ids |-> unique,
         model_id__num_hidden_neurons |-> counts,
         model_id__start_idx |-> start,
         model_id__end_idx |-> model_id__end_idx(start, counts),
         num_unique_models |-> Len(unique),
         num_activations |-> Len(activations),
         activations_split |-> activations_split(T, Len(activations)),
         hidden_weight |-> [i \in 0..(T - 1) |-> [j \in 0..(in_features - 1) |-> 0]],
         hidden_bias |-> [i \in 0..(T - 1) |-> 0],
         weight |-> [o \in 0..(out_features - 1) |-> [i \in 0..(T - 1) |-> 0]],
         has_bias |-> bias,
         bias |-> IF bias
                  THEN [m \in 0..(Len(unique) - 1) |-> [o \in 0..(out_features - 1) |-> 0]]
                  ELSE [m \in {} |-> 0],
         resets |-> 0]

(* ------------------------- reset_parameters ---------------------------- *)
\* the k-th value drawn by the initialisers from a generator seeded with s
DrawVal(s, k) == ((((s + k) % 5) * 3) % 5) - 2

\* bug: the slice takes one index too many
SliceInclusive(dom, start, end) == {i \in dom : start <= i /\ i <= end}

\* the slice start:end of an axis indexed by dom
Slice(dom, start, end) == {i \in dom : start <= i /\ i < end}

\* one iteration of `for layer_id in layer_ids`, drawing from offset s.
\* Returns the engine, the next offset, the status, and the rows written.
ResetLayer(e, s, layer_id) ==
    IF layer_id \notin DOMAIN e.model_id__start_idx \/ layer_id \notin DOMAIN e.model_id__end_idx
    THEN [eng |-> e, s |-> s, status |-> "IndexError", rows |-> {}, bias_rows |-> {}]
    ELSE IF ~e.has_bias
    THEN [eng |-> e, s |-> s, status |-> "TypeError", rows |-> {}, bias_rows |-> {}]
    ELSE IF layer_id \notin DOMAIN e.bias
    THEN [eng |-> e, s |-> s, status |-> "IndexError", rows |-> {}, bias_rows |-> {}]
    ELSE LET start == e.model_id__start_idx[layer_id]
             end == e.model_id__end_idx[layer_id]
             rows == Slice(DOMAIN e.hidden_bias, start, end)
             width == Cardinality(rows)
             nin == e.in_features
             nout == e.out_features
             n1 == width * nin
             n2 == n1 + width
             n3 == n2 + nout * width
         IN  [eng |-> [e EXCEPT
                  !.hidden_weight = [i \in DOMAIN @ |->
                      IF i \in rows
                      THEN [j \in 0..(nin - 1) |-> DrawVal(s, (i - start) * nin + j)]
                      ELSE @[i]],
                  !.hidden_bias = [i \in DOMAIN @ |->
                      IF i \in rows THEN DrawVal(s, n1 + (i - start)) ELSE @[i]],
                  !.weight = [o \in DOMAIN @ |-> [i \in DOMAIN @[o] |->
                      IF i \in rows THEN DrawVal(s, n2 + o * width + (i - start))
                      ELSE @[o][i]]],
                  !.bias = [m \in DOMAIN @ |->
                      IF m = layer_id THEN [o \in 0..(nout - 1) |-> DrawVal(s, n3 + o)]
                      ELSE @[m]]],
              s |-> s + n3 + nout, status |-> "ok", rows |-> rows, bias_rows |-> {layer_id}]

RECURSIVE ResetLoop(_, _, _, _, _, _)
\* for layer_id in layer_ids: ...   (stops at the first exception)
ResetLoop(e, s, layer_ids, k, rows, bias_rows) ==
    IF k > Len(layer_ids)
    THEN [eng |-> e, status |-> "ok", rows |-> rows, bias_rows |-> bias_rows]
    ELSE LET r == ResetLayer(e, s, layer_ids[k])
         IN  IF r.status # "ok"
             THEN [eng |-> r.eng, status |-> r.status, rows |-> rows, bias_rows |-> bias_rows]
             ELSE ResetLoop(r.eng, r.s, layer_ids, k + 1,
                            rows \cup r.rows, bias_rows \cup r.bias_rows)

\* reset_parameters(layer_ids); layer_ids is None (all unique model ids) or
\* a Python list wrapped as [list |-> <<...>>]
reset_parameters(e, seed, layer_ids) ==
    ResetLoop(e, seed, IF layer_ids = None THEN e.unique_model_ids ELSE layer_ids.list,
              1, {}, {})

\* ParallelMLPs(...): allocation followed by self.reset_parameters().  With
\* bias=False, self.bias = None makes bias a plain attribute of the module and
\* register_parameter("bias", None) raises KeyError (the attribute exists)
ParallelMLPs(in_features, out_features, hidden, out_model, out_arch, activations, bias, seed) ==
    LET r == reset_parameters(
                 Allocate(in_features, out_features, hidden, out_model, out_arch,
                          activations, bias), seed, None)
    IN  IF ~bias THEN [status |-> "KeyError"]
        ELSE IF r.status = "ok" THEN r.eng ELSE [status |-> r.status]

(* ----------------------------- forward -------------------------------- *)
Abs(x) == IF x < 0 THEN -x ELSE x

\* round(100 * sigmoid(h)) for integer h
Sigmoid100(h) ==
    LET a == Abs(h)
        v == IF a = 0 THEN 50 ELSE IF a = 1 THEN 73 ELSE IF a = 2 THEN 88
             ELSE IF a = 3 THEN 95 ELSE IF a = 4 THEN 98 ELSE 99
    IN  IF h >= 0 THEN v ELSE 100 - v

\* act(h), scaled by 100, for the torch.nn activation modules
ApplyAct(act, h) ==
    IF act.cls = "ReLU" THEN (IF h > 0 THEN 100 * h ELSE 0)
    ELSE IF act.cls = "LeakyReLU" THEN (IF h >= 0 THEN 100 * h ELSE act.negative_slope * h)
    ELSE Sigmoid100(h)

RECURSIVE SumOver(_, _)
\* sum of f[i] for i in the finite set S
SumOver(f, S) ==
    IF S = {} THEN 0
    ELSE LET i == CHOOSE x \in S : TRUE IN f[i] + SumOver(f, S \ {i})

\* nn.Linear: weight[i] . x + bias[i] for every output unit i
Linear(weight, bias, x) ==
    [i \in DOMAIN bias |->
        SumOver([j \in DOMAIN x |-> x[j] * weight[i][j]], DOMAIN x) + bias[i]]

\* x.split(split_size, dim=1): the chunks as sets of column indices, in order
SplitChunks(n, split_size) ==
    IF split_size = 0
    THEN <<{}>>
    ELSE [c \in 1..((n + split_size - 1) \div split_size) |->
             {i \in 0..(n - 1) : i \div split_size = c - 1}]

\* the activation that zip(self.activations, tensors) pairs with column i
SegmentActivation(e, tensors, zipped, i) ==
    e.activations[CHOOSE d \in 1..zipped : i \in tensors[d]]

\* apply_activations on one row x of hidden values.  The result holds the
\* columns of the chunks that zip() pairs with an activation.
apply_activations(e, x) ==
    LET n == Cardinality(DOMAIN x)
    IN  IF e.activations_split = 0 /\ n > 0
        THEN [status |-> "RuntimeError", msg |-> "split_size can only be 0 if dimension size is 0"]
        ELSE LET tensors == SplitChunks(n, e.activations_split)
                 sub_tensor_out_features == Cardinality(tensors[1])
                 zipped == IF Len(tensors) < Len(e.activations) THEN Len(tensors)
                           ELSE Len(e.activations)
             IN  IF \E c \in 1..zipped : Cardinality(tensors[c]) # sub_tensor_out_features
                 THEN [status |-> "RuntimeError",
                       msg |-> "sub_tensors with different number of parameters per activation"]
                 ELSE [status |-> "ok", msg |-> "",
                       output |-> [i \in UNION {tensors[c] : c \in 1..zipped} |->
                           ApplyAct(SegmentActivation(e, tensors, zipped, i), x[i])]]

\* bug: slot m of scatter_add_ also collects the neurons of the models before m
scatter_index_upto(e, m) ==
    {i \in DOMAIN e.hidden_neuron__model_id : e.hidden_neuron__model_id[i] <= m}

\* the rows that scatter_add_(1, hidden_neuron__model_id..., x) adds into slot m
scatter_index(e, m) ==
    {i \in DOMAIN e.hidden_neuron__model_id : e.hidden_neuron__model_id[i] = m}

\* forward on one row of the batch
ForwardRow(e, x) ==
    LET h == Linear(e.hidden_weight, e.hidden_bias, x)
        a == apply_activations(e, h)
    IN  IF a.status # "ok" THEN a
        ELSE IF DOMAIN a.output # DOMAIN e.hidden_bias
        THEN [status |-> "RuntimeError", msg |-> "size of tensor a must match size of tensor b"]
        ELSE IF \E i \in DOMAIN e.hidden_neuron__model_id :
                    e.hidden_neuron__model_id[i] >= e.num_unique_models
        THEN [status |-> "RuntimeError", msg |-> "index out of bounds for scatter_add_"]
        ELSE IF ~e.has_bias
        THEN [status |-> "TypeError", msg |-> "NoneType is not subscriptable"]
        ELSE [status |-> "ok", msg |-> "",
              out |-> [m \in 0..(e.num_unique_models - 1) |->
                  [o \in 0..(e.out_features - 1) |->
                      SumOver([i \in DOMAIN a.output |-> a.output[i] * e.weight[o][i]],
                              scatter_index(e, m))
                      + 100 * e.bias[m][o]]]]

\* forward(X) for a batch X (a sequence of rows)
forward(e, X) ==
    LET rows == [b \in 1..Len(X) |-> ForwardRow(e, X[b])]
    IN  IF rows[1].status # "ok" THEN [status |-> rows[1].status, msg |-> rows[1].msg]
        ELSE [status |-> "ok", msg |-> "", out |-> [b \in 1..Len(X) |-> rows[b].out]]

(* --------------------------- extract_mlp ------------------------------- *)
\* bug: the model id is taken for the neuron index
FirstNeuronIsModelId(e, model_id) == model_id

\* torch.nonzero(mask)[0]: the first index owned by model_id
FirstNeuron(e, model_id) ==
    CHOOSE i \in DOMAIN e.hidden_neuron__model_id :
        /\ e.hidden_neuron__model_id[i] = model_id
        /\ \A k \in DOMAIN e.hidden_neuron__model_id :
               e.hidden_neuron__model_id[k] = model_id => i <= k

\* the rows selected by a boolean mask, renumbered from 0 in increasing order
Compact(S) == [k \in 0..(Cardinality(S) - 1) |->
                  CHOOSE i \in S : Cardinality({j \in S : j < i}) = k]

\* bug: the test the error message words, model_id > num_unique_models
model_id_above_range(e, model_id) == model_id > e.num_unique_models

\* if model_id >= self.num_unique_models: raise ValueError
model_id_out_of_range(e, model_id) == model_id >= e.num_unique_models

extract_mlp(e, model_id) ==
    IF model_id_out_of_range(e, model_id)
    THEN [status |-> "ValueError"]
    ELSE LET model_neurons == {i \in DOMAIN e.hidden_neuron__model_id :
                                   e.hidden_neuron__model_id[i] = model_id}
             sel == Compact(model_neurons)
         IN  IF ~e.has_bias \/ model_id \notin DOMAIN e.bias
             THEN [status |-> IF e.has_bias THEN "IndexError" ELSE "TypeError"]
             ELSE IF model_neurons = {}
             THEN [status |-> "IndexError"]
             ELSE IF e.activations_split = 0
             THEN [status |-> "RuntimeError"]
             ELSE LET activation_index == FirstNeuron(e, model_id) \div e.activations_split
                  IN  IF activation_index + 1 > Len(e.activations)
                      THEN [status |-> "IndexError"]
                      ELSE [status |-> "ok",
                            model_id |-> model_id,
                            hidden_weight |-> [k \in DOMAIN sel |-> e.hidden_weight[sel[k]]],
                            hidden_bias |-> [k \in DOMAIN sel |-> e.hidden_bias[sel[k]]],
                            activation |-> e.activations[activation_index + 1],
                            out_weight |-> [o \in DOMAIN e.weight |->
                                               [k \in DOMAIN sel |-> e.weight[o][sel[k]]]],
                            out_bias |-> e.bias[model_id]]

\* bug: the layers of the extracted model are views of the engine's tensors
mlp_parameters_views(e, x) == extract_mlp(e, x.asked)

\* the parameters the extracted model x holds while the engine is e: the
\* tensors of its own nn.Linear layers, filled from clones at extraction
mlp_parameters(e, x) == x.mlp

\* optimizer.step() on the extracted model: every output bias entry moves
mlp_step(mlp) == [mlp EXCEPT !.out_bias = [o \in DOMAIN @ |-> @[o] + 1]]

\* nn.Sequential(hidden_layer, activation, out_layer) applied to one row
MlpRow(mlp, x) ==
    LET h == Linear(mlp.hidden_weight, mlp.hidden_bias, x)
        a == [k \in DOMAIN h |-> ApplyAct(mlp.activation, h[k])]
    IN  [o \in DOMAIN mlp.out_bias |->
            SumOver([k \in DOMAIN a |-> a[k] * mlp.out_weight[o][k]], DOMAIN a)
            + 100 * mlp.out_bias[o]]

\* mlp(X) for a batch X
MlpForward(mlp, X) == [b \in 1..Len(X) |-> MlpRow(mlp, X[b])]

(* ------------------------------ inputs --------------------------------- *)
\* torch.manual_seed(0)
ManualSeed == 0
\* step=1 in the parallel_mlp_object fixture
FixtureStep == 1

Row1 == [j \in 0..(InFeatures - 1) |-> 1]
Row2 == [j \in 0..(InFeatures - 1) |-> IF j = 0 THEN -1 ELSE 2]
Batches == {<<Row2, Row1>>}

(* ------------------------ MultiConfusionMatrix ------------------------- *)
\* MultiConfusionMatrix(n_models, n_classes, device)
MultiConfusionMatrix(n_models, n_classes, device) ==
    [n_models |-> n_models,
     n_classes |-> n_classes,
     device |-> device,
     cm |-> [m \in 0..(n_models - 1) |->
                [t \in 0..(n_classes - 1) |-> [p \in 0..(n_classes - 1) |-> 0]]],
     n_models_arange |-> [m \in 0..(n_models - 1) |-> m],
     one |-> 1]

RECURSIVE ArgMaxFrom(_, _, _)
\* scan of the class axis keeping the first maximal position
ArgMaxFrom(v, k, best) ==
    IF k \notin DOMAIN v THEN best
    ELSE ArgMaxFrom(v, k + 1, IF v[k] > v[best] THEN k ELSE best)

\* v.argmax(-1)
argmax(v) == ArgMaxFrom(v, 1, 0)

\* t[idx] += value (accumulate=True) for one index triple
PutOne(t, idx, value) ==
    [t EXCEPT ![idx[1]][idx[2]][idx[3]] = @ + value]

\* bug: t[indices] += value, which writes a repeated index triple only once
index_put_plus_equals(t, indices, value) ==
    [m \in DOMAIN t |-> [a \in DOMAIN t[m] |-> [p \in DOMAIN t[m][a] |->
        IF \E k \in 1..Len(indices) : indices[k] = <<m, a, p>>
        THEN t[m][a][p] + value ELSE t[m][a][p]]]]

RECURSIVE index_put_(_, _, _)
\* t.index_put_(indices, values, accumulate=True) over the broadcast index triples
index_put_(t, indices, value) ==
    IF indices = <<>> THEN t
    ELSE index_put_(PutOne(t, Head(indices), value), Tail(indices), value)

\* bug: the model axis is not broadcast, only model 0 is indexed
BroadcastIndicesFirstModel(arange_, targets, predictions) ==
    [k \in 1..Len(targets) |-> <<arange_[0], targets[k], predictions[k][0]>>]

\* bug: target and prediction axes swapped
BroadcastIndicesSwapped(arange_, targets, predictions) ==
    LET n == Cardinality(DOMAIN arange_)
    IN  [k \in 1..(Len(targets) * n) |->
            LET i == ((k - 1) \div n) + 1
                m == (k - 1) % n
            IN  <<arange_[m], predictions[i][m], targets[i]>>]

\* the broadcast of (n_models_arange, targets[:, None], predictions): one
\* triple <<model, target, prediction>> per sample and model, sample-major
BroadcastIndices(arange_, targets, predictions) ==
    LET n == Cardinality(DOMAIN arange_)
    IN  [k \in 1..(Len(targets) * n) |->
            LET i == ((k - 1) \div n) + 1
                m == (k - 1) % n
            IN  <<arange_[m], targets[i], predictions[i][m]>>]

\* the device of predictions after `if predictions.device != self.cm.device:
\* predictions = predictions.to(self.cm.device)`
MovedPredDevice(c, batch) ==
    IF batch.pred_device # c.device THEN c.device ELSE batch.pred_device

\* the device of the index targets[:, None]: targets is used where it is
TargetIndexDevice(c, batch) == batch.target_device

\* the devices of the three index tensors handed to index_put_
IndexDevices(c, batch) ==
    {c.device, TargetIndexDevice(c, batch), MovedPredDevice(c, batch)}

\* index_put_ takes an index tensor that is on the cpu or on the device of
\* the indexed tensor, and raises for any other
update_status(c, batch) ==
    IF IndexDevices(c, batch) \subseteq {"cpu", c.device}
    THEN "ok" ELSE "RuntimeError"

\* update(predictions, targets) on the accumulator object c
update(c, batch) ==
    LET predictions ==
            IF batch.ndim > 2
            THEN [i \in 1..Len(batch.predictions) |->
                     [m \in DOMAIN batch.predictions[i] |-> argmax(batch.predictions[i][m])]]
            ELSE batch.predictions
    IN  IF update_status(c, batch) # "ok" THEN c
        ELSE [c EXCEPT !.cm = index_put_(@, BroadcastIndices(c.n_models_arange, batch.targets,
                                                             predictions), c.one)]

\* tensor.to(device) of both tensors of a batch
OnDevices(batch, pred_device, target_device) ==
    [ndim |-> batch.ndim,
     pred_device |-> pred_device,
     target_device |-> target_device,
     targets |-> batch.targets,
     predictions |-> batch.predictions]

Devices == {"cpu", "cuda"}

\* mat.sum(-1): the sum of row t of one model's matrix
RowSum(mat, t) == SumOver(mat[t], DOMAIN mat[t])

\* mat.sum(-2): the sum of column p of one model's matrix
ColSum(mat, p) == SumOver([t \in DOMAIN mat |-> mat[t][p]], DOMAIN mat)

\* self.cm[0].sum()
total_samples(c) == SumOver([t \in DOMAIN c.cm[0] |-> RowSum(c.cm[0], t)], DOMAIN c.cm[0])

\* self.tp = self.cm.diagonal(dim1=-1, dim2=-2): a view of cm, never a copy
tp(c) == [m \in DOMAIN c.cm |-> [k \in DOMAIN c.cm[m] |-> c.cm[m][k][k]]]

\* self.fn = self.cm.sum(-1) - self.tp
calc_fn(c) == [m \in DOMAIN c.cm |-> [k \in DOMAIN c.cm[m] |-> RowSum(c.cm[m], k) - tp(c)[m][k]]]

\* bug: the false positives are taken from the row sums as well
calc_fp_rows(c) == [m \in DOMAIN c.cm |-> [k \in DOMAIN c.cm[m] |-> RowSum(c.cm[m], k) - tp(c)[m][k]]]

\* self.fp = self.cm.sum(-2) - self.tp
calc_fp(c) == [m \in DOMAIN c.cm |-> [k \in DOMAIN c.cm[m] |-> ColSum(c.cm[m], k) - tp(c)[m][k]]]

\* self.tn = self.total_samples - self.fn - self.fp - self.tp, on the
\* attributes just assigned
calc_tn(c) ==
    [m \in DOMAIN c.cm |->
        [k \in DOMAIN c.cm[m] |-> c.total_samples - c.fn[m][k] - c.fp[m][k] - tp(c)[m][k]]]

\* a / b of two integer tensors: the float quotient, kept as the pair
TrueDiv(num, den) == [num |-> num, den |-> den]

\* a / torch.sqrt(b) in float arithmetic, b >= 0: 0/0 is nan, x/0 is +-inf
DivSqrt(num, den2) ==
    [kind |-> IF den2 # 0 THEN "finite" ELSE IF num = 0 THEN "nan" ELSE "inf",
     num |-> num,
     den2 |-> den2]

\* the float 0.000000001 written over the masked entries
Sentinel == [kind |-> "sentinel", num |-> 0, den2 |-> 0]

\* bug: only the prediction term is tested
invalid_mask_ypyp(cov_ypyp, cov_ytyt) == cov_ypyp = 0

\* invalid_mask = (cov_ypyp * cov_ytyt) == 0
invalid_mask(cov_ypyp, cov_ytyt) == (cov_ypyp * cov_ytyt) = 0

\* _matthews_corrcoef() of one model; the per-class matt of the first lines
\* is overwritten before it is used
MattOf(c, m) ==
    LET C == c.cm[m]
        K == DOMAIN C
        t_sum == [k \in K |-> RowSum(C, k)]
        p_sum == [k \in K |-> ColSum(C, k)]
        n_correct == SumOver(tp(c)[m], K)
        cov_ytyp == n_correct * c.total_samples - SumOver([k \in K |-> t_sum[k] * p_sum[k]], K)
        cov_ypyp == c.total_samples * c.total_samples
                        - SumOver([k \in K |-> p_sum[k] * p_sum[k]], K)
        cov_ytyt == c.total_samples * c.total_samples
                        - SumOver([k \in K |-> t_sum[k] * t_sum[k]], K)
        matt == DivSqrt(cov_ytyp, cov_ytyt * cov_ypyp)
    IN  IF invalid_mask(cov_ypyp, cov_ytyt) THEN Sentinel ELSE matt

_matthews_corrcoef(c) == [m \in DOMAIN c.cm |-> MattOf(c, m)]

\* calculate_metrics(): the object with its new attributes, and the metrics
calculate_metrics(c) ==
    LET c1 == [total_samples |-> total_samples(c)] @@ c
        c2 == [fn |-> calc_fn(c1)] @@ c1
        c3 == [fp |-> calc_fp(c2)] @@ c2
        c4 == [tn |-> calc_tn(c3)] @@ c3
    IN  [self |-> c4,
         metrics |->
            [overall_acc |->
                [m \in DOMAIN c4.cm |->
                    TrueDiv(SumOver(tp(c4)[m], DOMAIN c4.cm[m]), c4.total_samples)],
             matthews_corrcoef |-> _matthews_corrcoef(c4)]]

\* class scores of one model for one sample: all equal, or one class ahead
ScoreVecs == {[k \in 0..(NClasses - 1) |-> IF j = 0 \/ k = j THEN 1 ELSE 0] :
                  j \in 0..(NClasses - 1)}

\* one sample of a batch: the target and the per-model predictions
IndexSamples == [target : 0..(NClasses - 1),
                 pred : [0..(NModels - 1) -> 0..(NClasses - 1)]]
ScoreSamples == [target : 0..(NClasses - 1),
                 pred : [0..(NModels - 1) -> ScoreVecs]]

MakeBatch(ndim, samples) ==
    [ndim |-> ndim,
     pred_device |-> "cpu",
     target_device |-> "cpu",
     targets |-> [i \in 1..Len(samples) |-> samples[i].target],
     predictions |-> [i \in 1..Len(samples) |-> samples[i].pred]]

\* the batches of n samples: class indices [batch, n_models] or scores
\* [batch, n_models, n_classes]
BatchesOf(ndim, n) ==
    {MakeBatch(ndim, s) : s \in [1..n -> IF ndim > 2 THEN ScoreSamples ELSE IndexSamples]}

RECURSIVE TotalSamples(_)
TotalSamples(batches) ==
    IF batches = <<>> THEN 0
    ELSE Len(Head(batches).targets) + TotalSamples(Tail(batches))

BuildArgs ==
    [repetitions : 1..MaxReps,
     activation_functions : SeqsUpTo(ActivationPool, MaxActs),
     min_neurons : 0..MaxNeurons,
     max_neurons : 0..MaxNeurons,
     step : 1..MaxStep]

Init ==
    /\ args = None
    /\ ids = None
    /\ eng = None
    /\ call = [op |-> "none"]
    /\ fwd = None
    /\ ext = None
    /\ cm = None
    /\ seen = <<>>
    /\ loc = None

\* layer_ids = build_model_ids(repetitions, activation_functions, min, max, step)
Build(A) ==
    /\ args = None
    /\ \E a \in A :
        /\ a.min_neurons <= a.max_neurons
        /\ args' = a
        /\ ids' = build_model_ids(a)
        /\ call' = [op |-> "build_model_ids"]
    /\ UNCHANGED <<eng, fwd, ext, cm, seen, loc>>

\* a direct call with any arguments
BuildModelIds == Build(BuildArgs)

\* the call made by the parallel_mlp_object fixture (step=1)
FixtureModelIds == Build({a \in BuildArgs : a.step = FixtureStep})

\* ParallelMLPs(in_features, out_features, *layer_ids, activations, bias),
\* constructed right after torch.manual_seed(0)
Construct ==
    /\ ids # None /\ ids.status = "ok"
    /\ eng = None
    /\ \E bias \in BOOLEAN :
        /\ eng' = ParallelMLPs(InFeatures, OutFeatures, ids.hidden_neuron__model_id,
                               ids.output__model_id, ids.output__architecture_id,
                               args.activation_functions, bias, ManualSeed)
        /\ call' = [op |-> "__init__", bias |-> bias]
    /\ UNCHANGED <<args, ids, fwd, ext, cm, seen, loc>>

\* the lists of model ids a caller passes to reset_parameters
LayerIdLists(e) ==
    {l \in SeqsUpTo(0..(e.num_unique_models - 1), MaxResetIds) : Len(l) > 0}

EngineOk == eng # None /\ eng.status = "ok"

\* engine.reset_parameters(layer_ids), the generator being in some state
\* other than the one torch.manual_seed(0) leaves
ResetParameters ==
    /\ EngineOk
    /\ eng.resets < MaxResets
    /\ \E seed \in 1..MaxSeed,
          layer_ids \in {None} \cup {[list |-> l] : l \in LayerIdLists(eng)} :
        LET r == reset_parameters(eng, seed, layer_ids)
        IN  /\ eng' = [r.eng EXCEPT !.resets = @ + 1]
            /\ call' = [op |-> "reset_parameters", layer_ids |-> layer_ids,
                        status |-> r.status, rows |-> r.rows, bias_rows |-> r.bias_rows]
    /\ UNCHANGED <<args, ids, fwd, ext, cm, seen, loc>>

\* output = engine(X)
Forward ==
    /\ EngineOk
    /\ \E X \in Batches :
        /\ fwd' = [X |-> X, resets |-> eng.resets, result |-> forward(eng, X)]
        /\ call' = [op |-> "forward"]
    /\ UNCHANGED <<args, ids, eng, ext, cm, seen, loc>>

\* mlp = engine.extract_mlp(model_id)
ExtractMlp ==
    /\ EngineOk
    /\ \E model_id \in 0..eng.num_unique_models :
        /\ ext' = [resets |-> eng.resets, mlp |-> extract_mlp(eng, model_id),
                   asked |-> model_id, steps |-> 0, X |-> <<>>, out |-> <<>>]
        /\ call' = [op |-> "extract_mlp"]
    /\ UNCHANGED <<args, ids, eng, fwd, cm, seen, loc>>

\* output_mlp = mlp(X)
MlpCall ==
    /\ ext # None /\ ext.mlp.status = "ok"
    /\ \E X \in Batches :
        /\ ext' = [ext EXCEPT !.X = X, !.out = MlpForward(mlp_parameters(eng, ext), X)]
        /\ call' = [op |-> "mlp"]
    /\ UNCHANGED <<args, ids, eng, fwd, cm, seen, loc>>

\* optimizer.step() of the extracted model's own optimizer; the output
\* recorded for the earlier parameters is dropped
MlpStep ==
    /\ ext # None /\ ext.mlp.status = "ok"
    /\ ext.steps < MaxMlpSteps
    /\ ext' = [ext EXCEPT !.mlp = mlp_step(mlp_parameters(eng, ext)),
                          !.steps = @ + 1, !.X = <<>>, !.out = <<>>]
    /\ call' = [op |-> "optimizer.step"]
    /\ UNCHANGED <<args, ids, eng, fwd, cm, seen, loc>>

RECURSIVE Layout(_, _)
\* a hand-written hidden_neuron__model_id: widths[m] copies of each id m - 1
Layout(widths, m) ==
    IF m > Len(widths) THEN <<>>
    ELSE Repeat(m - 1, widths[m]) \o Layout(widths, m + 1)

\* standalone use: the caller writes the three arrays and the activation list
\* without build_model_ids
StandaloneIds ==
    /\ args = None
    /\ \E widths \in {w \in SeqsUpTo(1..MaxNeurons, MaxModels) : Len(w) > 0},
          acts \in {l \in SeqsUpTo(ActivationPool, MaxActs) : Len(l) > 0} :
        /\ args' = [activation_functions |-> acts]
        /\ ids' = [status |-> "ok", msg |-> "",
                   hidden_neuron__model_id |-> Layout(widths, 1),
                   output__model_id |-> arange(0, Len(widths), 1),
                   output__architecture_id |-> arange(0, Len(widths), 1)]
        /\ call' = [op |-> "standalone"]
    /\ UNCHANGED <<eng, fwd, ext, cm, seen, loc>>

\* the engine on hand-written arrays
NextStandalone == StandaloneIds \/ Construct \/ Forward

SpecStandalone == Init /\ [][NextStandalone]_vars

\* the engine: fixture construction, then any calls
Next == FixtureModelIds \/ Construct \/ ResetParameters \/ Forward \/ ExtractMlp \/ MlpCall

\* the engine and the models extracted from it, each changing its parameters
NextCopies == FixtureModelIds \/ Construct \/ ResetParameters \/ ExtractMlp \/ MlpStep

SpecCopies == Init /\ [][NextCopies]_vars

\* the engine alone: forward between resets
NextForward == FixtureModelIds \/ Construct \/ ResetParameters \/ Forward

SpecForward == Init /\ [][NextForward]_vars

\* mcm = MultiConfusionMatrix(n_models, n_classes), every tensor on the cpu
InitCM ==
    /\ args = None
    /\ ids = None
    /\ eng = None
    /\ call = [op |-> "none"]
    /\ fwd = None
    /\ ext = None
    /\ cm = MultiConfusionMatrix(NModels, NClasses, "cpu")
    /\ seen = <<>>
    /\ loc = [predictions |-> "cpu", targets |-> "cpu"]

\* mcm = MultiConfusionMatrix(n_models, n_classes, device), the caller's
\* predictions and targets living on devices of their own
InitDevice ==
    /\ args = None
    /\ ids = None
    /\ eng = None
    /\ call = [op |-> "none"]
    /\ fwd = None
    /\ ext = None
    /\ \E d \in Devices : cm = MultiConfusionMatrix(NModels, NClasses, d)
    /\ seen = <<>>
    /\ loc \in [predictions : Devices, targets : Devices]

\* mcm.update(predictions, targets) with predictions of ndim in ndims and a
\* batch size in sizes; seen keeps the batches of the calls that returned
UpdateWith(ndims, sizes) ==
    /\ cm # None
    /\ \E n \in sizes \cap (1..(MaxSamples - TotalSamples(seen))) :
        \E ndim \in ndims : \E b \in BatchesOf(ndim, n) :
            LET batch == OnDevices(b, loc.predictions, loc.targets)
                status == update_status(cm, batch)
            IN  /\ cm' = update(cm, batch)
                /\ seen' = IF status = "ok" THEN Append(seen, batch) ELSE seen
                /\ call' = [op |-> "update", status |-> status, batch |-> batch]
    /\ UNCHANGED <<args, ids, eng, fwd, ext, loc>>

\* class indices [batch, n_models] or class scores [batch, n_models, n_classes]
Update == UpdateWith({2, 3}, 1..MaxSamples)

\* class indices, as test_pycm_equivalence passes them, one sample per call
UpdateIndices == UpdateWith({2}, {1})

NextCM == Update

SpecCM == InitCM /\ [][NextCM]_vars

\* metrics = mcm.calculate_metrics()
CalculateMetrics ==
    /\ cm # None
    /\ LET r == calculate_metrics(cm)
       IN  /\ cm' = r.self
           /\ call' = [op |-> "calculate_metrics", metrics |-> r.metrics]
    /\ UNCHANGED <<args, ids, eng, fwd, ext, seen, loc>>

NextMetrics == UpdateIndices \/ CalculateMetrics

SpecMetrics == InitCM /\ [][NextMetrics]_vars

NextDevice == UpdateIndices

SpecDevice == InitDevice /\ [][NextDevice]_vars

\* build_model_ids alone, on any arguments
NextBuild == BuildModelIds

SpecBuild == Init /\ [][NextBuild]_vars


Spec == Init /\ [][Next]_vars

(* ======================= properties of build_model_ids ================== *)
BuildOk == ids # None /\ ids.status = "ok"

\* the configuration of the call, as the specification names it
CfgR == args.repetitions
CfgK == Len(args.activation_functions)
CfgS == ((args.max_neurons - args.min_neurons) \div args.step) + 1
CfgM == CfgS * CfgK * CfgR
\* the hidden width of model m: neuron_sequence[m mod S]
CfgWidth(m) == args.min_neurons + (m % CfgS) * args.step
CfgSeqSum == SeqSum([k \in 1..CfgS |-> args.min_neurons + (k - 1) * args.step])

\* C2: build_model_ids returns, hidden_neuron__model_id has length
\* R*K*sum(neuron_sequence), every id m in [0, M) occurs exactly
\* neuron_sequence[m mod S] times, contiguously, ids are in increasing order
\* and no id >= M is emitted.
C2_Partition ==
    (call.op = "build_model_ids") =>
        /\ ids # None
        /\ BuildOk =>
            LET h == ids.hidden_neuron__model_id
            IN  /\ Len(h) = CfgR * CfgK * CfgSeqSum
                /\ \A m \in 0..(CfgM - 1) :
                       Cardinality({i \in 1..Len(h) : h[i] = m}) = CfgWidth(m)
                /\ \A i \in 1..Len(h) : h[i] \in 0..(CfgM - 1)
                /\ \A i, j \in 1..Len(h) : i < j => h[i] <= h[j]
                /\ \A i, j \in 1..Len(h) :
                       (i < j /\ h[i] = h[j]) => \A k \in i..j : h[k] = h[i]

C2_Witness ==
    /\ BuildOk
    /\ CfgR = 2 /\ CfgK = 2 /\ CfgS = 2 /\ args.step = 2
    /\ Len(ids.hidden_neuron__model_id) = 8

\* C5: output__model_id has length M = S*K*R and equals [0, 1, ..., M-1].
C5_OutputModelId ==
    BuildOk => ids.output__model_id = [k \in 1..CfgM |-> k - 1]

\* C6: output__architecture_id has length M and its entry for model m is
\* m mod (S*K).
C6_ArchitectureId ==
    BuildOk =>
        /\ Len(ids.output__architecture_id) = CfgM
        /\ \A m \in 0..(CfgM - 1) :
               m + 1 \in DOMAIN ids.output__architecture_id
               /\ ids.output__architecture_id[m + 1] = m % (CfgS * CfgK)

SameKindTwice ==
    \E i, j \in 1..CfgK :
        i # j /\ args.activation_functions[i].cls = args.activation_functions[j].cls

\* C7: build_model_ids raises ValueError exactly when the activation list is
\* empty or holds two activations of the same class; when it raises, none of
\* the three arrays has been built; otherwise all three are returned.
C7_Validation ==
    (call.op = "build_model_ids") =>
        /\ ids.status = "ValueError" <=> (CfgK = 0 \/ SameKindTwice)
        /\ ids.status = "ValueError" =>
               DOMAIN ids \cap {"hidden_neuron__model_id", "output__model_id",
                                "output__architecture_id"} = {}
        /\ ids.status # "ValueError" =>
               /\ ids.status = "ok"
               /\ {"hidden_neuron__model_id", "output__model_id",
                   "output__architecture_id"} \subseteq DOMAIN ids

\* two different LeakyReLU instances are rejected as the same kind
C7_Witness ==
    /\ call.op = "build_model_ids"
    /\ ids.status = "ValueError"
    /\ CfgK = 2
    /\ args.activation_functions[1] # args.activation_functions[2]
    /\ SameKindTwice

(* ========================= properties of the engine ===================== *)
Models(e) == 0..(e.num_unique_models - 1)

\* the hidden neurons owned by model m
Owned(e, m) == {i \in DOMAIN e.hidden_neuron__model_id : e.hidden_neuron__model_id[i] = m}

\* the activation forward applies to hidden neuron i
ForwardActivation(e, i) ==
    LET tensors == SplitChunks(e.total_hidden_neurons, e.activations_split)
        zipped == IF Len(tensors) < Len(e.activations) THEN Len(tensors)
                  ELSE Len(e.activations)
    IN  SegmentActivation(e, tensors, zipped, i)

FwdOk == fwd # None /\ fwd.result.status = "ok"
ExtOk == ext # None /\ ext.mlp.status = "ok"

\* C1: for an engine built from build_model_ids output, the slice of the
\* batched forward output for model m equals the output of extract_mlp(m) on
\* the same batch and parameters, and forward applies to every neuron of m
\* the activation extract_mlp(m) selects.
C1_ForwardEqualsExtract ==
    /\ (FwdOk /\ ExtOk /\ ext.out # <<>> /\ ext.X = fwd.X /\ ext.resets = fwd.resets) =>
           \A b \in 1..Len(fwd.X) : fwd.result.out[b][ext.mlp.model_id] = ext.out[b]
    /\ (EngineOk /\ ExtOk) =>
           \A i \in Owned(eng, ext.mlp.model_id) :
               ForwardActivation(eng, i) = ext.mlp.activation

\* a two-neuron model of the second activation segment, extracted after a
\* reset and evaluated on the batch forward was given
C1_Witness ==
    /\ FwdOk /\ ExtOk /\ ext.out # <<>> /\ ext.X = fwd.X
    /\ ext.resets = fwd.resets /\ fwd.resets = 1
    /\ CfgR = 2 /\ CfgK = 2 /\ CfgS = 2
    /\ Cardinality(Owned(eng, ext.mlp.model_id)) = 2
    /\ ext.mlp.activation = args.activation_functions[2]
    /\ \E b \in 1..Len(fwd.X), o \in 0..(OutFeatures - 1) :
           fwd.result.out[b][ext.mlp.model_id][o] # 0

\* C3: the activation applied to model m, by forward and by extract_mlp, is
\* activations[(m // S) mod K].
C3_ActivationAssignment ==
    /\ EngineOk =>
           \A m \in Models(eng) : \A i \in Owned(eng, m) :
               ForwardActivation(eng, i)
                   = args.activation_functions[((m \div CfgS) % CfgK) + 1]
    /\ (EngineOk /\ ExtOk) =>
           ext.mlp.activation
               = args.activation_functions[((ext.mlp.model_id \div CfgS) % CfgK) + 1]

\* C4: two models with the same output__architecture_id have the same hidden
\* width and the same activation in the engine.
C4_ArchitectureIdentifies ==
    EngineOk =>
        \A m1, m2 \in Models(eng) :
            eng.output__architecture_id[m1] = eng.output__architecture_id[m2] =>
                /\ Cardinality(Owned(eng, m1)) = Cardinality(Owned(eng, m2))
                /\ \A i \in Owned(eng, m1), j \in Owned(eng, m2) :
                       ForwardActivation(eng, i) = ForwardActivation(eng, j)

\* the models reset_parameters(layer_ids) was asked to re-draw
Listed(e, layer_ids) ==
    IF layer_ids = None THEN Models(e)
    ELSE {layer_ids.list[k] : k \in 1..Len(layer_ids.list)}

\* for every model the range [start, end) is the set of its neurons, has its
\* configured width, and the ranges follow one another from 0 to the total
C8_RangesPartition ==
    EngineOk =>
        /\ \A m \in Models(eng) :
               /\ {i \in DOMAIN eng.hidden_bias :
                       eng.model_id__start_idx[m] <= i /\ i < eng.model_id__end_idx[m]}
                      = Owned(eng, m)
               /\ eng.model_id__end_idx[m] - eng.model_id__start_idx[m] = CfgWidth(m)
               /\ eng.model_id__start_idx[m] =
                      (IF m = 0 THEN 0 ELSE eng.model_id__end_idx[m - 1])
        /\ eng.num_unique_models > 0 =>
               eng.model_id__end_idx[eng.num_unique_models - 1] = eng.total_hidden_neurons

\* a reset_parameters step writes the rows and columns of the listed models'
\* neurons and their bias rows, and leaves every other entry as it was
C8_ResetStep ==
    (call'.op = "reset_parameters" /\ EngineOk) =>
        LET listed == Listed(eng, call'.layer_ids)
            owned == UNION {Owned(eng, m) : m \in listed}
        IN  /\ call'.status = "ok"
            /\ call'.rows = owned
            /\ call'.bias_rows = listed
            /\ \A i \in DOMAIN eng.hidden_bias \ owned :
                   /\ eng'.hidden_weight[i] = eng.hidden_weight[i]
                   /\ eng'.hidden_bias[i] = eng.hidden_bias[i]
                   /\ \A o \in DOMAIN eng.weight : eng'.weight[o][i] = eng.weight[o][i]
            /\ \A m \in Models(eng) \ listed : eng'.bias[m] = eng.bias[m]
            /\ eng'.hidden_neuron__model_id = eng.hidden_neuron__model_id
            /\ eng'.model_id__start_idx = eng.model_id__start_idx
            /\ eng'.model_id__end_idx = eng.model_id__end_idx

\* C8: reset_parameters(model_ids) re-draws exactly the slices of the listed
\* models - the neurons whose hidden_neuron__model_id is a listed id, and the
\* listed bias rows; the ranges [start, end) have the models' widths and
\* partition the hidden layer in id order; everything else is unchanged.
C8_ResetFrame == [][C8_ResetStep]_vars /\ []C8_RangesPartition

\* one model out of several was reset and some parameter of it changed
C8_Witness ==
    /\ EngineOk /\ call.op = "reset_parameters" /\ call.status = "ok"
    /\ call.layer_ids # None
    /\ eng.num_unique_models >= 4
    /\ Cardinality(call.rows) = 2
    /\ eng.resets = 1

(* =================== properties of MultiConfusionMatrix ================= *)
\* the class model m predicts for sample i of a batch: the given index, or
\* the least class whose score no other class exceeds
Pred(batch, i, m) ==
    IF batch.ndim = 2 THEN batch.predictions[i][m]
    ELSE LET v == batch.predictions[i][m]
         IN  CHOOSE p \in DOMAIN v :
                 /\ \A q \in DOMAIN v : v[q] <= v[p]
                 /\ \A q \in DOMAIN v : v[q] = v[p] => p <= q

\* the samples of a batch with target t that model m predicts as p
Hits(batch, m, t, p) ==
    {i \in 1..Len(batch.targets) : batch.targets[i] = t /\ Pred(batch, i, m) = p}

LastBatch(h) == h[Len(h)]

C9_UpdateStep ==
    (call'.op = "update") =>
        \A m \in 0..(NModels - 1), t, p \in 0..(NClasses - 1) :
            cm'.cm[m][t][p] = cm.cm[m][t][p] + Cardinality(Hits(LastBatch(seen'), m, t, p))

\* C9: update adds to cm[m, t, p] the number of samples of the batch with
\* target t that model m predicts as p (the given class index, or the
\* arg-max of the scores), so every (sample, model) pair counts once, repeated
\* pairs included, and no other cell changes.
C9_UpdateCounts == [][C9_UpdateStep]_vars

\* a batch of scores in which one model gives the same (target, prediction)
\* pair twice, through tied scores
C9_Witness ==
    /\ call.op = "update"
    /\ LastBatch(seen).ndim = 3
    /\ Len(LastBatch(seen).targets) = 2
    /\ \E m \in 0..(NModels - 1), t, p \in 0..(NClasses - 1) :
           /\ Cardinality(Hits(LastBatch(seen), m, t, p)) = 2
           /\ cm.cm[m][t][p] >= 2
           /\ \A q \in 0..(NClasses - 1) :
                  LastBatch(seen).predictions[1][m][q] = LastBatch(seen).predictions[1][m][0]

RECURSIVE FoldUpdates(_, _, _)
\* the accumulator after update on the batches h[1..k], one call per batch
FoldUpdates(c, h, k) ==
    IF k = 0 THEN c ELSE update(FoldUpdates(c, h, k - 1), h[k])

RECURSIVE ConcatBatches(_)
\* torch.cat of the batches of a non-empty sequence
ConcatBatches(h) ==
    IF Len(h) = 1 THEN h[1]
    ELSE LET rest == ConcatBatches(Tail(h))
         IN  [ndim |-> h[1].ndim,
              pred_device |-> h[1].pred_device,
              target_device |-> h[1].target_device,
              targets |-> h[1].targets \o rest.targets,
              predictions |-> h[1].predictions \o rest.predictions]

Reverse(h) == [k \in 1..Len(h) |-> h[Len(h) + 1 - k]]

\* C10: from the matrix reached after any earlier updates, updating with the
\* following sub-batches one after the other gives the same matrix as one
\* update with their concatenation, in either order.
C10_Additive ==
    \A k \in 0..(Len(seen) - 1) :
        LET base == FoldUpdates(MultiConfusionMatrix(NModels, NClasses, "cpu"), seen, k)
            rest == SubSeq(seen, k + 1, Len(seen))
        IN  (\A j \in 1..Len(rest) : rest[j].ndim = rest[1].ndim) =>
                /\ cm.cm = update(base, ConcatBatches(rest)).cm
                /\ cm.cm = update(base, ConcatBatches(Reverse(rest))).cm

\* two sub-batches of class indices of different sizes after an earlier
\* update, with a cell counted in both
C10_Witness ==
    /\ Len(seen) = 2
    /\ seen[1].ndim = 2 /\ seen[2].ndim = 2
    /\ Len(seen[1].targets) = 2 /\ Len(seen[2].targets) = 1
    /\ \E m \in 0..(NModels - 1), t, p \in 0..(NClasses - 1) :
           /\ Hits(seen[1], m, t, p) # {}
           /\ Hits(seen[2], m, t, p) # {}
           /\ cm.cm[m][t][p] = 3

\* the sum of all cells of one model's matrix
RECURSIVE CellSum(_, _)
CellSum(mat, cells) ==
    IF cells = {} THEN 0
    ELSE LET c == CHOOSE x \in cells : TRUE
         IN  mat[c[1]][c[2]] + CellSum(mat, cells \ {c})

ModelTotal(c, m) == CellSum(c.cm[m], (0..(c.n_classes - 1)) \X (0..(c.n_classes - 1)))

C11_State ==
    cm # None =>
        /\ \A m \in 0..(cm.n_models - 1), t, p \in 0..(cm.n_classes - 1) : cm.cm[m][t][p] >= 0
        /\ \A m \in 0..(cm.n_models - 1) : ModelTotal(cm, m) = TotalSamples(seen)
        /\ \A m \in 0..(cm.n_models - 1) : ModelTotal(cm, m) = ModelTotal(cm, 0)

C11_Step ==
    cm # None =>
        \A m \in 0..(cm.n_models - 1), t, p \in 0..(cm.n_classes - 1) :
            cm'.cm[m][t][p] >= cm.cm[m][t][p]

\* C11: after construction and any updates every cell is >= 0 and never
\* decreases, and every model's cells sum to the number of samples passed to
\* update so far, so all models have the same total as model 0.
C11_CountsInvariant == []C11_State /\ [][C11_Step]_vars

\* two updates, three samples in all, counted for every model
C11_Witness ==
    /\ cm # None /\ Len(seen) = 2 /\ TotalSamples(seen) = 3
    /\ \A m \in 0..(cm.n_models - 1) : ModelTotal(cm, m) = 3
    /\ \E t, p \in 0..(cm.n_classes - 1) : cm.cm[0][t][p] # cm.cm[1][t][p]

(* ------------------------- calculate_metrics --------------------------- *)
RECURSIVE PairCount(_, _, _)
\* the number of samples of the batches h whose (target, prediction of model
\* m) pair lies in cells, counted on the raw pairs
PairCount(h, m, cells) ==
    IF h = <<>> THEN 0
    ELSE Cardinality({i \in 1..Len(Head(h).targets) :
                         <<Head(h).targets[i], Pred(Head(h), i, m)>> \in cells})
         + PairCount(Tail(h), m, cells)

Classes == 0..(NClasses - 1)

RefTP(m, c) == PairCount(seen, m, {<<c, c>>})
RefFN(m, c) == PairCount(seen, m, {<<c, p>> : p \in Classes \ {c}})
RefFP(m, c) == PairCount(seen, m, {<<t, c>> : t \in Classes \ {c}})
RefTN(m, c) == PairCount(seen, m, (Classes \ {c}) \X (Classes \ {c}))

\* C12: right after calculate_metrics, for every model m and class c,
\* tp = cm[m,c,c], fn = row sum - tp, fp = column sum - tp and
\* tn = total - tp - fp - fn, each equal to the one-vs-rest count taken from
\* the raw (target, prediction) pairs; overall accuracy of m is the diagonal
\* sum of cm[m] over the total number of samples.
C12_Metrics ==
    (call.op = "calculate_metrics") =>
        \A m \in 0..(NModels - 1) :
            /\ \A c \in Classes :
                /\ tp(cm)[m][c] = cm.cm[m][c][c]
                /\ tp(cm)[m][c] = RefTP(m, c)
                /\ cm.fn[m][c] = RowSum(cm.cm[m], c) - tp(cm)[m][c]
                /\ cm.fn[m][c] = RefFN(m, c)
                /\ cm.fp[m][c] = ColSum(cm.cm[m], c) - tp(cm)[m][c]
                /\ cm.fp[m][c] = RefFP(m, c)
                /\ cm.tn[m][c] = TotalSamples(seen) - tp(cm)[m][c] - cm.fp[m][c] - cm.fn[m][c]
                /\ cm.tn[m][c] = RefTN(m, c)
            /\ call.metrics.overall_acc[m] =
                   [num |-> SumOver([c \in Classes |-> cm.cm[m][c][c]], Classes),
                    den |-> TotalSamples(seen)]

\* metrics of three samples where class 0 of model 0 has hits, misses and
\* false alarms and model 1 has a class whose misses and false alarms differ
C12_Witness ==
    /\ call.op = "calculate_metrics"
    /\ TotalSamples(seen) = 3
    /\ tp(cm)[0][0] > 0 /\ cm.fn[0][0] > 0 /\ cm.fp[0][0] > 0
    /\ \E c \in Classes : cm.fn[1][c] # cm.fp[1][c]

(* ------------------------- _matthews_corrcoef -------------------------- *)
\* the samples with target c, and the samples model m predicted as c
RefRow(c) == PairCount(seen, 0, {<<c, p>> : p \in Classes})
RefCol(m, c) == PairCount(seen, m, {<<t, c>> : t \in Classes})

\* total^2 - sum of squared row sums, total^2 - sum of squared column sums
RefCovTT == TotalSamples(seen) * TotalSamples(seen)
                - SumOver([c \in Classes |-> RefRow(c) * RefRow(c)], Classes)
RefCovPP(m) == TotalSamples(seen) * TotalSamples(seen)
                - SumOver([c \in Classes |-> RefCol(m, c) * RefCol(m, c)], Classes)
RefCovTP(m) == SumOver([c \in Classes |-> RefTP(m, c)], Classes) * TotalSamples(seen)
                - SumOver([c \in Classes |-> RefRow(c) * RefCol(m, c)], Classes)

\* C13: right after calculate_metrics, a model whose denominator term
\* (total^2 - sum of squared row sums) * (total^2 - sum of squared column
\* sums) is zero reports the sentinel, in particular when it predicted one
\* class for all samples or all targets are one class; no model reports NaN
\* or infinity; a model with a non-zero denominator keeps its quotient.
C13_Sentinel ==
    (call.op = "calculate_metrics") =>
        \A m \in 0..(NModels - 1) :
            LET mcc == call.metrics.matthews_corrcoef[m]
                den2 == RefCovTT * RefCovPP(m)
            IN  /\ (den2 = 0) => (mcc = Sentinel)
                /\ (\E c \in Classes : RefCol(m, c) = TotalSamples(seen)) => (mcc = Sentinel)
                /\ (\E c \in Classes : RefRow(c) = TotalSamples(seen)) => (mcc = Sentinel)
                /\ mcc.kind \notin {"nan", "inf"}
                /\ (den2 # 0) =>
                       mcc = [kind |-> "finite", num |-> RefCovTP(m), den2 |-> den2]

\* model 0 predicted class 0 for all three samples and reports the sentinel
\* while model 1, on the same targets, reports a non-zero quotient
C13_Witness ==
    /\ call.op = "calculate_metrics"
    /\ TotalSamples(seen) = 3
    /\ RefCol(0, 0) = 3
    /\ call.metrics.matthews_corrcoef[0] = Sentinel
    /\ call.metrics.matthews_corrcoef[1].kind = "finite"
    /\ call.metrics.matthews_corrcoef[1].num # 0

(* ------------------------------ devices -------------------------------- *)
\* C17: update succeeds wherever the predictions and the targets live, and
\* both are on the accumulator's device when they are used as indices.
C17_Relocated ==
    (call.op = "update") =>
        /\ call.status = "ok"
        /\ MovedPredDevice(cm, call.batch) = cm.device
        /\ TargetIndexDevice(cm, call.batch) = cm.device

(* ----------------------------- extract_mlp ----------------------------- *)
C14_State ==
    (EngineOk /\ ext # None) =>
        /\ (ext.asked >= eng.num_unique_models) => (ext.mlp.status = "ValueError")
        /\ (ext.asked \in Models(eng)) => (ext.mlp.status = "ok")

C14_Step == (call'.op = "extract_mlp") => (eng' = eng /\ ids' = ids)

\* C14: extract_mlp(model_id) with model_id >= M fails with ValueError, for
\* every model_id in [0, M) it does not raise, and in both cases the engine's
\* parameters and index arrays are left as they were.
C14_ExtractRange == []C14_State /\ [][C14_Step]_vars

\* the first id past the models of a reset engine of several models was asked
C14_Witness ==
    /\ EngineOk /\ ext # None /\ call.op = "extract_mlp"
    /\ eng.num_unique_models >= 2 /\ eng.resets = 1
    /\ ext.asked = eng.num_unique_models
    /\ ext.mlp.status = "ValueError"

\* the slices of the shared tensors that belong to model m
SliceOf(e, m) ==
    LET sel == Compact(Owned(e, m))
    IN  [hidden_weight |-> [k \in DOMAIN sel |-> e.hidden_weight[sel[k]]],
         hidden_bias |-> [k \in DOMAIN sel |-> e.hidden_bias[sel[k]]],
         out_weight |-> [o \in DOMAIN e.weight |-> [k \in DOMAIN sel |-> e.weight[o][sel[k]]]],
         out_bias |-> e.bias[m]]

\* the four parameter tensors of an extracted model
ParamsOf(mlp) ==
    [hidden_weight |-> mlp.hidden_weight, hidden_bias |-> mlp.hidden_bias,
     out_weight |-> mlp.out_weight, out_bias |-> mlp.out_bias]

C15_AtExtraction ==
    (call.op = "extract_mlp" /\ EngineOk /\ ExtOk) =>
        ParamsOf(mlp_parameters(eng, ext)) = SliceOf(eng, ext.asked)

C15_Step ==
    (ext # None /\ ext.mlp.status = "ok") =>
        /\ (call'.op = "reset_parameters") =>
               mlp_parameters(eng', ext') = mlp_parameters(eng, ext)
        /\ (call'.op = "optimizer.step") =>
               /\ eng' = eng
               /\ mlp_parameters(eng', ext') # mlp_parameters(eng, ext)

UnequalSegments == "sub_tensors with different number of parameters per activation"

\* C16: an engine whose hidden_neuron__model_id length is not a multiple of
\* the number of activations is rejected by the engine's own check: once it
\* is constructed, forward fails with the error for unequal activation
\* segments.
C16_OwnCheck ==
    (EngineOk /\ fwd # None
        /\ Len(ids.hidden_neuron__model_id) % Len(args.activation_functions) # 0) =>
            /\ fwd.result.status = "RuntimeError"
            /\ fwd.result.msg = UnequalSegments

(* ------------------------------ bias=False ----------------------------- *)
\* C18: construction with bias = False completes without error and gives an
\* engine without output bias.
C18_NoBias ==
    (call.op = "__init__" /\ ~call.bias /\ args.min_neurons >= 1) =>
        (eng.status = "ok" /\ ~eng.has_bias)

(* ------------------------ activation segments -------------------------- *)
\* the engine the fixture constructs from the arrays of the call
BuiltEngine ==
    ParallelMLPs(InFeatures, OutFeatures, ids.hidden_neuron__model_id, ids.output__model_id,
                 ids.output__architecture_id, args.activation_functions, TRUE, ManualSeed)

\* C19: for arrays of build_model_ids with min_neurons >= 1 the number of
\* hidden neurons is a multiple of K, no model's range [start, end) crosses a
\* boundary between the K segments of length total / K, and forward and
\* extract_mlp give all neurons of model m the activation of index
\* start(m) // activations_split.
C19_SegmentAligned ==
    (BuildOk /\ args.min_neurons >= 1) =>
        LET e == BuiltEngine
            split == e.activations_split
        IN  /\ e.status = "ok"
            /\ e.total_hidden_neurons % CfgK = 0
            /\ split * CfgK = e.total_hidden_neurons
            /\ \A m \in Models(e) :
                LET start == e.model_id__start_idx[m]
                    end == e.model_id__end_idx[m]
                IN  /\ start < end
                    /\ (end - 1) \div split = start \div split
                    /\ \A i \in Owned(e, m) :
                           ForwardActivation(e, i) = e.activations[(start \div split) + 1]
                    /\ extract_mlp(e, m).activation = e.activations[(start \div split) + 1]

\* two repetitions of two activations and two widths, stepping by one
C19_Witness ==
    /\ BuildOk /\ args.min_neurons = 1 /\ args.max_neurons = 2
    /\ CfgR = 2 /\ CfgK = 2 /\ CfgS = 2
    /\ BuiltEngine.activations_split = 6
    /\ BuiltEngine.model_id__start_idx[3] = 4

(* --------------------------- non-interference -------------------------- *)
C20_Step ==
    (call'.op = "reset_parameters" /\ EngineOk /\ call'.status = "ok") =>
        \A X \in Batches :
            LET before == forward(eng, X)
                after == forward(eng', X)
            IN  /\ before.status = "ok" /\ after.status = "ok"
                /\ \A m \in Models(eng) \ Listed(eng, call'.layer_ids) :
                       \A b \in 1..Len(X) : after.out[b][m] = before.out[b][m]

\* C20: for a fixed input X, resetting the parameters of other models leaves
\* forward(X)[:, m, :] unchanged: the slice of m depends on the hidden rows,
\* output-weight columns and bias row of m only.
C20_NonInterference == [][C20_Step]_vars

\* one model of several was reset after a forward call, and on the same batch
\* forward now differs in the slice of that model
C20_Witness ==
    /\ EngineOk /\ call.op = "reset_parameters" /\ call.status = "ok"
    /\ call.layer_ids # None
    /\ eng.num_unique_models >= 4
    /\ FwdOk /\ fwd.resets < eng.resets
    /\ \E m \in Listed(eng, call.layer_ids), b \in 1..Len(fwd.X) :
           forward(eng, fwd.X).out[b][m] # fwd.result.out[b][m]

====
